---- MODULE Spec2Model ----
(***************************************************************************)
(* A model of send_webex_notifications.py: the recipient loader, the card  *)
(* renderer and the batch / retry / logging loop of main().                *)
(*                                                                         *)
(* Text is modelled as a sequence of one-character strings, so that        *)
(* strip(), lower(), "in", startswith() and slicing are computed, not      *)
(* assumed.  The transport (requests.post) is the environment: each call   *)
(* answers with a response or raises requests.RequestException.            *)
(***************************************************************************)
EXTENDS Integers, Sequences, FiniteSets, TLC

VARIABLES
    pc,             \* position of the process in main(); "idle" when no process runs
    cfg,            \* the resolved configuration of the running process
    runs,           \* number of processes started so far
    emails,         \* main: emails
    card,           \* main: card
    log_exists,     \* the file system: Path(log_path).exists()
    log_file,       \* the file system: the rows of the log file
    log_handle,     \* "none", "open" or "closed"
    log_base,       \* history: number of rows of the log when the loop was entered
    total_sent,     \* main: total_sent
    total_failed,   \* main: total_failed
    batch_index,    \* main: batch_index
    batch,          \* main: batch
    pos,            \* position of the iterator of "for to_email in batch"
    to_email,       \* main: to_email
    attempt,        \* main: attempt (the range iterator)
    attempts,       \* main: attempts
    last_status,    \* main: last_status
    message_id,     \* main: message_id
    error_preview,  \* main: error_preview
    ok,             \* main: ok
    exc,            \* the exception propagating out of the loop, "none" if none
    trace,          \* history: attempts and retry sleeps of the current recipient
    calls,          \* history: transport calls of this process
    posts,          \* history: the target and the outcome of every transport call
    retry_sleeps,   \* history: time.sleep(retry_delay) calls of this process
    batch_sleeps,   \* history: time.sleep(batch_delay) calls of this process
    batches,        \* history: the batches the generator has yielded
    paused_after    \* history: batch indexes followed by an inter-batch sleep

vars == <<pc, cfg, runs, emails, card, log_exists, log_file, log_handle, log_base,
          total_sent, total_failed, batch_index, batch, pos, to_email, attempt,
          attempts, last_status, message_id, error_preview, ok, exc, trace, calls,
          posts, retry_sleeps, batch_sleeps, batches, paused_after>>

(***************************************************************************)
(* Bounds of the model.                                                    *)
(***************************************************************************)
\* recipients of a file, where the batches vary
MaxRecipients == 4
\* recipients of a file, where the retries vary
MaxRetryRecipients == 2
\* --retry-count
MaxRetry == 3
\* --batch-size
MaxBatch == 3
\* successive processes on one log path
MaxRuns == 3
\* data rows of a recipients file given to the loader alone
MaxRows == 3
\* facts of a fact set of a template given to the renderer alone
MaxFacts == 3
\* groupings nested around an element of such a template
MaxDepth == 2

(***************************************************************************)
(* Text.                                                                   *)
(***************************************************************************)
Min(a, b) == IF a < b THEN a ELSE b

\* s[:n]
Take(s, n) == SubSeq(s, 1, Min(Len(s), n))

\* s[n:]
Drop(s, n) == SubSeq(s, Min(Len(s), n) + 1, Len(s))

IsSpace(c) == c \in {" ", "\t", "\n", "\r"}

\* str.lower() on one character (the letters the model uses)
LowerChar(c) ==
    CASE c = "E" -> "e"
      [] c = "M" -> "m"
      [] c = "A" -> "a"
      [] c = "I" -> "i"
      [] c = "L" -> "l"
      [] c = "X" -> "x"
      [] OTHER -> c

\* str.lower()
Lower(s) == [i \in 1..Len(s) |-> LowerChar(s[i])]

RECURSIVE LStrip(_)
LStrip(s) == IF s # <<>> /\ IsSpace(Head(s)) THEN LStrip(Tail(s)) ELSE s

RECURSIVE RStrip(_)
RStrip(s) ==
    IF s # <<>> /\ IsSpace(s[Len(s)]) THEN RStrip(SubSeq(s, 1, Len(s) - 1)) ELSE s

\* str.strip()
Strip(s) == RStrip(LStrip(s))

\* s.startswith(p)
StartsWith(s, p) == Len(p) <= Len(s) /\ SubSeq(s, 1, Len(p)) = p

\* p in s
Contains(s, p) ==
    \E i \in 0..(Len(s) - Len(p)) : SubSeq(s, i + 1, i + Len(p)) = p

\* s.replace(old, new), old non-empty: leftmost matches, left to right
RECURSIVE Replace(_, _, _)
Replace(s, old, new) ==
    IF s = <<>> THEN <<>>
    ELSE IF StartsWith(s, old) THEN new \o Replace(Drop(s, Len(old)), old, new)
    ELSE <<Head(s)>> \o Replace(Tail(s), old, new)

\* sep.join(fields)
RECURSIVE Join(_, _)
Join(fields, sep) ==
    IF fields = <<>> THEN <<>>
    ELSE IF Len(fields) = 1 THEN fields[1]
    ELSE fields[1] \o sep \o Join(Tail(fields), sep)

EMAIL == <<"e", "m", "a", "i", "l">>

AT == <<"@">>

(***************************************************************************)
(* load_emails.  A CSV file is the sequence of its rows as csv.reader      *)
(* yields them: a row is the sequence of its fields, a blank line is the   *)
(* empty row.                                                              *)
(***************************************************************************)
\* an optional text: row.get(name) is None or a str
NoField == [none |-> TRUE, text |-> <<>>]

Field(text) == [none |-> FALSE, text |-> text]

\* the first line of the file as text: f.readline()
FirstLine(rows) == IF rows = <<>> THEN <<>> ELSE Join(rows[1], <<",">>)

\* csv.DictReader: row.get(name); the last column of that name wins, a column
\* the row is too short for holds None
DictGet(fieldnames, row, name) ==
    LET cols == {i \in 1..Len(fieldnames) : fieldnames[i] = name}
    IN  IF cols = {} THEN NoField
        ELSE LET i == CHOOSE c \in cols : \A d \in cols : d <= c
             IN  IF i <= Len(row) THEN Field(row[i]) ELSE NoField

\* x or y, on optional texts: None and "" are falsy
OrElse(x, y) == IF x.none \/ x.text = <<>> THEN y ELSE x

\* line 94: the candidate of a row of a file with a header
HeaderCandidate(fieldnames, row) ==
    Strip(OrElse(DictGet(fieldnames, row, EMAIL),
            OrElse(DictGet(fieldnames, row, <<"E", "m", "a", "i", "l">>),
              OrElse(DictGet(fieldnames, row, <<"E", "M", "A", "I", "L">>),
                     Field(<<>>)))).text)

\* lines 92-96: the accepted candidates of a file with a header, in file order;
\* DictReader skips the blank lines
RECURSIVE HeaderEmails(_, _)
HeaderEmails(fieldnames, rows) ==
    IF rows = <<>> THEN <<>>
    ELSE LET email == HeaderCandidate(fieldnames, Head(rows))
             rest == HeaderEmails(fieldnames, Tail(rows))
         IN  IF Head(rows) # <<>> /\ email # <<>> /\ Contains(email, AT)
             THEN <<email>> \o rest
             ELSE rest

\* lines 98-104: the accepted candidates of a file without a header
RECURSIVE PlainEmails(_)
PlainEmails(rows) ==
    IF rows = <<>> THEN <<>>
    ELSE LET row == Head(rows)
             email == Strip(row[1])
             rest == PlainEmails(Tail(rows))
         IN  IF row = <<>> THEN rest
             ELSE IF email # <<>> /\ Contains(email, AT)
                     /\ ~StartsWith(Lower(email), EMAIL)
             THEN <<email>> \o rest
             ELSE rest

\* lines 87-104: the list "emails" before de-duplication
Candidates(rows) ==
    IF Contains(Lower(FirstLine(rows)), EMAIL)
    THEN HeaderEmails(rows[1], Tail(rows))
    ELSE PlainEmails(rows)

\* nothing is dropped
DedupeKeepsAll(es, seen) == es

\* lines 106-113: de-duplicate while preserving order
RECURSIVE Dedupe(_, _)
Dedupe(es, seen) ==
    IF es = <<>> THEN <<>>
    ELSE IF Head(es) \in seen THEN Dedupe(Tail(es), seen)
    ELSE <<Head(es)>> \o Dedupe(Tail(es), seen \cup {Head(es)})

\* the candidates are returned as they are
load_emails_raw(rows) == Candidates(rows)

load_emails(rows) == Dedupe(Candidates(rows), {})

(***************************************************************************)
(* JSON values, as json.load builds them.  Python's None is JSON's null.   *)
(* A dict keeps its keys in insertion order.                               *)
(***************************************************************************)
None == [j |-> "null"]

Str(s) == [j |-> "str", s |-> s]

List(items) == [j |-> "list", items |-> items]

Dict(keys, vals) == [j |-> "dict", keys |-> keys, vals |-> vals]

IsDict(v) == v.j = "dict"

IsList(v) == v.j = "list"

IsStr(v) == v.j = "str"

HasKey(d, k) == \E i \in 1..Len(d.keys) : d.keys[i] = k

\* d.get(k, default)
GetOr(d, k, default) ==
    IF HasKey(d, k)
    THEN d.vals[CHOOSE i \in 1..Len(d.keys) : d.keys[i] = k]
    ELSE default

\* d.get(k)
Get(d, k) == GetOr(d, k, None)

\* {**d, k: v}: an existing key keeps its place, a new key goes last
With(d, k, v) ==
    IF HasKey(d, k)
    THEN Dict(d.keys, [i \in 1..Len(d.keys) |-> IF d.keys[i] = k THEN v ELSE d.vals[i]])
    ELSE Dict(Append(d.keys, k), Append(d.vals, v))

\* len(v) of a list, a str or a dict
LenOf(v) ==
    CASE IsList(v) -> Len(v.items)
      [] IsStr(v) -> Len(v.s)
      [] IsDict(v) -> Len(v.keys)

\* the names of the variables of main, in the order the dict is built (lines 325-331)
VariableNames == <<"account", "opportunity", "amount", "due", "cta_url">>

NameText(k) ==
    CASE k = "account" -> <<"a", "c", "c", "o", "u", "n", "t">>
      [] k = "opportunity" -> <<"o", "p", "p", "o", "r", "t", "u", "n", "i", "t", "y">>
      [] k = "amount" -> <<"a", "m", "o", "u", "n", "t">>
      [] k = "due" -> <<"d", "u", "e">>
      [] k = "cta_url" -> <<"c", "t", "a", "_", "u", "r", "l">>

\* line 153: f"{{{{{k}}}}}"
Token(k) == <<"{", "{">> \o NameText(k) \o <<"}", "}">>

\* lines 151-155: the replacements of one string, one variable after the other
RECURSIVE ReplaceAll(_, _, _)
ReplaceAll(s, variables, n) ==
    IF n > Len(VariableNames) THEN s
    ELSE LET k == VariableNames[n]
             v == variables[k]
         IN  ReplaceAll(Replace(s, Token(k), IF v = None THEN <<>> ELSE v.s),
                        variables, n + 1)

RECURSIVE _deep_replace_placeholders(_, _)
_deep_replace_placeholders(value, variables) ==
    CASE IsStr(value) -> Str(ReplaceAll(value.s, variables, 1))
      [] IsList(value) ->
            List([i \in 1..Len(value.items) |->
                    _deep_replace_placeholders(value.items[i], variables)])
      [] IsDict(value) ->
            Dict(value.keys,
                 [i \in 1..Len(value.vals) |->
                    _deep_replace_placeholders(value.vals[i], variables)])
      [] OTHER -> value

\* lines 182-183
_is_blank(s) == s = None \/ (IsStr(s) /\ Strip(s.s) = <<>>)

TextBlock == Str(<<"T", "e", "x", "t", "B", "l", "o", "c", "k">>)

FactSet == Str(<<"F", "a", "c", "t", "S", "e", "t">>)

ActionOpenUrl ==
    Str(<<"A", "c", "t", "i", "o", "n", ".", "O", "p", "e", "n", "U", "r", "l">>)

Container == Str(<<"C", "o", "n", "t", "a", "i", "n", "e", "r">>)

Column == Str(<<"C", "o", "l", "u", "m", "n">>)

ColumnSet == Str(<<"C", "o", "l", "u", "m", "n", "S", "e", "t">>)

ActionSet == Str(<<"A", "c", "t", "i", "o", "n", "S", "e", "t">>)

AdaptiveCard ==
    Str(<<"A", "d", "a", "p", "t", "i", "v", "e", "C", "a", "r", "d">>)

\* no fact is dropped
PrunedFactsKeepAll(facts) == facts

\* line 202: the facts of a FactSet whose value is not blank
PrunedFacts(facts) ==
    LET Keep(f) == ~_is_blank(Get(IF f = None THEN Dict(<<>>, <<>>) ELSE f, "value"))
    IN  SelectSeq(facts, Keep)

\* the root counts as a grouping too
EmptyGroupingWithRoot(node_type, out) ==
    \/ node_type \in {Container, Column} /\ LenOf(GetOr(out, "items", List(<<>>))) = 0
    \/ node_type = ColumnSet /\ LenOf(GetOr(out, "columns", List(<<>>))) = 0
    \/ node_type = ActionSet /\ LenOf(GetOr(out, "actions", List(<<>>))) = 0
    \/ node_type = AdaptiveCard /\ LenOf(GetOr(out, "body", List(<<>>))) = 0

\* a column is never judged
EmptyGroupingNoColumn(node_type, out) ==
    \/ node_type = Container /\ LenOf(GetOr(out, "items", List(<<>>))) = 0
    \/ node_type = ColumnSet /\ LenOf(GetOr(out, "columns", List(<<>>))) = 0
    \/ node_type = ActionSet /\ LenOf(GetOr(out, "actions", List(<<>>))) = 0

\* lines 221-226: the node is an empty grouping
EmptyGrouping(node_type, out) ==
    \/ node_type \in {Container, Column} /\ LenOf(GetOr(out, "items", List(<<>>))) = 0
    \/ node_type = ColumnSet /\ LenOf(GetOr(out, "columns", List(<<>>))) = 0
    \/ node_type = ActionSet /\ LenOf(GetOr(out, "actions", List(<<>>))) = 0

\* lines 185-238; the result None stands for a dropped node
RECURSIVE _prune(_)
_prune(node) ==
    IF IsDict(node) THEN
        LET node_type == Get(node, "type")
        IN  IF node_type = TextBlock /\ _is_blank(Get(node, "text")) THEN None
            ELSE IF node_type = FactSet
                    /\ PrunedFacts(GetOr(node, "facts", List(<<>>)).items) = <<>>
            THEN None
            ELSE IF node_type = ActionOpenUrl /\ _is_blank(Get(node, "url")) THEN None
            ELSE
              LET node2 == IF node_type = FactSet
                           THEN With(node, "facts",
                                     List(PrunedFacts(GetOr(node, "facts", List(<<>>)).items)))
                           ELSE node
                  \* lines 210-218: the children, pruned; None marks a key to skip
                  kids == [i \in 1..Len(node2.vals) |->
                             IF IsDict(node2.vals[i]) \/ IsList(node2.vals[i])
                             THEN _prune(node2.vals[i])
                             ELSE node2.vals[i]]
                  Kept(i) == ~((IsDict(node2.vals[i]) \/ IsList(node2.vals[i]))
                               /\ kids[i] = None)
                  idx == SelectSeq([i \in 1..Len(node2.vals) |-> i], Kept)
                  out == Dict([n \in 1..Len(idx) |-> node2.keys[idx[n]]],
                              [n \in 1..Len(idx) |-> kids[idx[n]]])
              IN  IF EmptyGrouping(node_type, out) THEN None ELSE out
    ELSE IF IsList(node) THEN
        LET NotDropped(x) == x # None
        IN  List(SelectSeq([i \in 1..Len(node.items) |-> _prune(node.items[i])], NotDropped))
    ELSE node

\* the card is returned without the check of lines 243-244
load_card_json_unchecked(template, variables) ==
    IF template.file # "ok" THEN [error |-> "not found"]
    ELSE [error |-> "",
          card |-> _prune(_deep_replace_placeholders(template.raw, variables))]

\* lines 163-246.  A template file is missing, not JSON, or holds a JSON value.
\* The result is the rendered card, or the fatal error raised.
load_card_json(template, variables) ==
    IF template.file = "missing" THEN [error |-> "not found"]
    ELSE IF template.file = "invalid" THEN [error |-> "invalid JSON"]
    ELSE LET rendered == _prune(_deep_replace_placeholders(template.raw, variables))
         IN  IF ~IsDict(rendered) \/ Get(rendered, "type") # AdaptiveCard
             THEN [error |-> "not an AdaptiveCard"]
             ELSE [error |-> "", card |-> rendered]

(***************************************************************************)
(* chunked and ensure_log_writer.                                          *)
(***************************************************************************)
\* the values of range(0, n, size), size # 0, counted
RangeLen(n, size) == IF size < 0 \/ n <= 0 THEN 0 ELSE (n + size - 1) \div size

\* the batches come last first
chunkedReversed(items, size) ==
    [k \in 1..RangeLen(Len(items), size) |->
        SubSeq(items, (RangeLen(Len(items), size) - k) * size + 1,
               Min((RangeLen(Len(items), size) - k + 1) * size, Len(items)))]

\* lines 116-118: the batches the generator yields, in order (size # 0;
\* range() raises ValueError for size = 0)
chunked(items, size) ==
    [k \in 1..RangeLen(Len(items), size) |->
        SubSeq(items, (k - 1) * size + 1, Min(k * size, Len(items)))]

\* line 283
HeaderRow ==
    [kind |-> "header",
     cols |-> <<"timestamp_utc", "email", "status", "attempts", "http_status",
                "message_id", "error_preview">>]

\* the header goes out on every open
first_write_always == TRUE

\* line 279
first_write == ~log_exists

\* lines 278-284: the rows of the file once the writer is returned
ensure_log_writer == IF first_write THEN Append(log_file, HeaderRow) ELSE log_file

(***************************************************************************)
(* The transport.  A call returns a response or raises                     *)
(* requests.RequestException.  A response carries its status code, what    *)
(* resp.json() makes of its body and its body as text.                     *)
(***************************************************************************)
\* last_status = None
NoStatus == 0

\* line 376 and line 381: [:300]
PreviewLen == 300

SuccessCodes == {200, 201}

\* what resp.json() gives: a dict holding "id", a dict without it, a parse
\* error (ValueError), or a JSON value that is no dict (a list, null, a number)
JsonKinds == {"object_with_id", "object", "not_json", "array"}

ErrorText1 == <<"n", "o", "\n", "!">>

ErrorText2 == <<"b", "u", "s", "y">>

ErrorText3 == <<"t", "i", "m", "e", "d", " ", "o", "u", "t">>

SuccessResponses ==
    {[kind |-> "response", status_code |-> 200, json |-> "object_with_id", text |-> <<>>],
     [kind |-> "response", status_code |-> 201, json |-> "object", text |-> <<>>],
     [kind |-> "response", status_code |-> 200, json |-> "not_json", text |-> <<>>],
     [kind |-> "response", status_code |-> 201, json |-> "array", text |-> <<>>]}

FailureResponses ==
    {[kind |-> "response", status_code |-> 500, json |-> "not_json", text |-> ErrorText1],
     [kind |-> "response", status_code |-> 429, json |-> "object", text |-> ErrorText2]}

Exceptions == {[kind |-> "exception", message |-> ErrorText3]}

\* lines 376 and 381: text[:300].replace("\n", " ")
Preview(text) == Replace(Take(text, PreviewLen), <<"\n">>, <<" ">>)

\* lines 365-370: data.get("id", "") after data = resp.json(), {} on a parse error
MessageId(resp) == IF resp.json = "object_with_id" THEN "m1" ELSE ""

\* line 370 raises AttributeError when resp.json() returned no dict
JsonIsDict(resp) == resp.json # "array"

(***************************************************************************)
(* The inputs of a process: what parse_args, load_settings, the            *)
(* environment and the file system give main().                            *)
(***************************************************************************)
Letters == <<"a", "b", "c", "d", "e", "f">>

Address(n) == <<Letters[n], "@", "x">>

\* a recipients file without a header: one address per row
PlainFile(n) == [k \in 1..n |-> <<Address(k)>>]

\* a recipients file with a header, a blank line, a padded duplicate and a
\* row that is no address
HeaderFile ==
    << <<EMAIL, <<"n">>>>, <<Address(1), <<"A">>>>, <<>>,
       <<<<" ">> \o Address(1) \o <<" ">>, <<"B">>>>, <<<<"x">>, <<"C">>>>,
       <<Address(2), <<"D">>>> >>

CsvInputs ==
    {[exists |-> FALSE, rows |-> <<>>]}
    \cup {[exists |-> TRUE, rows |-> PlainFile(n)] : n \in 0..MaxRetryRecipients}
    \cup {[exists |-> TRUE, rows |-> HeaderFile]}

DueToken == Str(Token("due"))

\* a card whose body holds a text, a fact set with a due fact and an action
CardTemplate ==
    Dict(<<"type", "body", "actions">>,
         <<AdaptiveCard,
           List(<< Dict(<<"type", "text">>, <<TextBlock, Str(<<"H", "i">>)>>),
                   Dict(<<"type", "facts">>,
                        <<FactSet,
                          List(<<Dict(<<"title", "value">>,
                                      <<Str(<<"D">>), DueToken>>)>>)>>) >>),
           List(<< Dict(<<"type", "url">>,
                        <<ActionOpenUrl, Str(Token("cta_url"))>>) >>)>>)

\* a template whose root is no AdaptiveCard
ContainerTemplate ==
    Dict(<<"type", "items">>,
         <<Container,
           List(<<Dict(<<"type", "text">>, <<TextBlock, DueToken>>)>>)>>)

TemplateInputs ==
    {[file |-> "missing", raw |-> None], [file |-> "invalid", raw |-> None],
     [file |-> "ok", raw |-> CardTemplate], [file |-> "ok", raw |-> ContainerTemplate],
     [file |-> "ok", raw |-> List(<<CardTemplate>>)]}

\* --due, or the due of settings.json, or None
DueInputs == {None, Str(<<"1", "0", "/", "1">>)}

\* lines 325-331
Variables(c) ==
    [account |-> Str(<<"A">>), opportunity |-> Str(<<"O">>), amount |-> Str(<<"$">>),
     due |-> IF c.due = None \/ c.due.s = <<>> THEN Str(<<>>) ELSE c.due,
     cta_url |-> Str(<<"u">>)]

BatchSizes == -1..MaxBatch

RetryCounts == -1..MaxRetry

TheCard == [file |-> "ok", raw |-> CardTemplate]

\* configurations that vary what happens before the loop
StartupConfigs ==
    [token : {"", "t"}, csv : CsvInputs, card_json : TemplateInputs, due : DueInputs,
     batch_size : {1}, retry_count : {1}, dry_run : BOOLEAN]

\* configurations that vary the retries of a recipient
RetryConfigs ==
    [token : {"t"},
     csv : {[exists |-> TRUE, rows |-> PlainFile(n)] : n \in 1..MaxRetryRecipients}
           \cup {[exists |-> TRUE, rows |-> HeaderFile]},
     card_json : {TheCard}, due : {None},
     batch_size : {1, 2}, retry_count : RetryCounts, dry_run : BOOLEAN]

\* configurations that vary the batches
BatchConfigs ==
    [token : {"t"},
     csv : {[exists |-> TRUE, rows |-> PlainFile(n)] : n \in 1..MaxRecipients},
     card_json : {TheCard}, due : {None},
     batch_size : BatchSizes, retry_count : {0, 1}, dry_run : BOOLEAN]

\* the configurations of one process
Configs == StartupConfigs \cup RetryConfigs \cup BatchConfigs

\* the configurations of the processes that share a log path
RunConfigs ==
    [token : {"", "t"}, csv : {[exists |-> TRUE, rows |-> PlainFile(1)]},
     card_json : {TheCard}, due : {None},
     batch_size : {0, 1}, retry_count : {1}, dry_run : BOOLEAN]

(***************************************************************************)
(* main().                                                                 *)
(***************************************************************************)
Terminated == {"exit0", "exit1", "crashed"}

Init ==
    /\ pc = "idle"
    /\ cfg = [token |-> "", csv |-> [exists |-> FALSE, rows |-> <<>>],
              card_json |-> [file |-> "missing", raw |-> None], due |-> None,
              batch_size |-> 1, retry_count |-> 1, dry_run |-> FALSE]
    /\ runs = 0
    /\ emails = <<>>
    /\ card = None
    /\ log_exists = FALSE
    /\ log_file = <<>>
    /\ log_handle = "none"
    /\ log_base = 0
    /\ total_sent = 0
    /\ total_failed = 0
    /\ batch_index = 0
    /\ batch = <<>>
    /\ pos = 0
    /\ to_email = <<>>
    /\ attempt = 0
    /\ attempts = 0
    /\ last_status = NoStatus
    /\ message_id = ""
    /\ error_preview = <<>>
    /\ ok = FALSE
    /\ exc = "none"
    /\ trace = <<>>
    /\ calls = 0
    /\ posts = <<>>
    /\ retry_sleeps = 0
    /\ batch_sleeps = 0
    /\ batches = <<>>
    /\ paused_after = {}

\* lines 287-311: a process starts, resolves its configuration and checks the token
Main(configs, maxruns) ==
    /\ pc \in Terminated \cup {"idle"}
    /\ runs < maxruns
    /\ \E c \in configs :
        /\ cfg' = c
        /\ pc' = IF c.token = "" THEN "exit1" ELSE "check_csv"
    /\ runs' = runs + 1
    /\ emails' = <<>>
    /\ card' = None
    /\ log_handle' = "none"
    /\ log_base' = 0
    /\ total_sent' = 0
    /\ total_failed' = 0
    /\ batch_index' = 0
    /\ batch' = <<>>
    /\ pos' = 0
    /\ to_email' = <<>>
    /\ attempt' = 0
    /\ attempts' = 0
    /\ last_status' = NoStatus
    /\ message_id' = ""
    /\ error_preview' = <<>>
    /\ ok' = FALSE
    /\ exc' = "none"
    /\ trace' = <<>>
    /\ calls' = 0
    /\ posts' = <<>>
    /\ retry_sleeps' = 0
    /\ batch_sleeps' = 0
    /\ batches' = <<>>
    /\ paused_after' = {}
    /\ UNCHANGED <<log_exists, log_file>>

\* lines 313-315
CheckCsv ==
    /\ pc = "check_csv"
    /\ pc' = IF cfg.csv.exists THEN "load_emails" ELSE "exit1"
    /\ UNCHANGED <<cfg, runs, emails, card, log_exists, log_file, log_handle, log_base,
                   total_sent, total_failed, batch_index, batch, pos, to_email, attempt,
                   attempts, last_status, message_id, error_preview, ok, exc, trace,
                   calls, retry_sleeps, batch_sleeps, batches, paused_after, posts>>

\* lines 317-322
LoadEmails ==
    /\ pc = "load_emails"
    /\ emails' = load_emails(cfg.csv.rows)
    /\ pc' = IF emails' = <<>> THEN "exit1" ELSE "load_card"
    /\ UNCHANGED <<cfg, runs, card, log_exists, log_file, log_handle, log_base,
                   total_sent, total_failed, batch_index, batch, pos, to_email, attempt,
                   attempts, last_status, message_id, error_preview, ok, exc, trace,
                   calls, retry_sleeps, batch_sleeps, batches, paused_after, posts>>

\* lines 324-333: load_card_json raises SystemExit or returns the card
LoadCard ==
    /\ pc = "load_card"
    /\ LET r == load_card_json(cfg.card_json, Variables(cfg))
       IN  IF r.error # ""
           THEN pc' = "exit1" /\ card' = card
           ELSE pc' = "open_log" /\ card' = r.card
    /\ UNCHANGED <<cfg, runs, emails, log_exists, log_file, log_handle, log_base,
                   total_sent, total_failed, batch_index, batch, pos, to_email, attempt,
                   attempts, last_status, message_id, error_preview, ok, exc, trace,
                   calls, retry_sleeps, batch_sleeps, batches, paused_after, posts>>

\* lines 336-342: the log is opened (and created), the header written on a first
\* write, the counters set and the try block entered
OpenLog ==
    /\ pc = "open_log"
    /\ log_file' = ensure_log_writer
    /\ log_exists' = TRUE
    /\ log_handle' = "open"
    /\ log_base' = Len(log_file')
    /\ total_sent' = 0
    /\ total_failed' = 0
    /\ batch_index' = 0
    /\ pc' = "next_batch"
    /\ UNCHANGED <<cfg, runs, emails, card, batch, pos, to_email, attempt, attempts,
                   last_status, message_id, error_preview, ok, exc, trace, calls,
                   retry_sleeps, batch_sleeps, batches, paused_after, posts>>

\* lines 343-345: the generator yields the next batch, ends, or (size 0) raises
\* ValueError from range()
NextBatch ==
    /\ pc = "next_batch"
    /\ IF cfg.batch_size = 0
       THEN /\ exc' = "ValueError"
            /\ pc' = "finally"
            /\ UNCHANGED <<batch_index, batch, pos, batches>>
       ELSE IF batch_index < Len(chunked(emails, cfg.batch_size))
       THEN /\ batch' = chunked(emails, cfg.batch_size)[batch_index + 1]
            /\ batch_index' = batch_index + 1
            /\ batches' = Append(batches, batch')
            /\ pos' = 0
            /\ pc' = "next_recipient"
            /\ exc' = exc
       ELSE /\ pc' = "finally"
            /\ UNCHANGED <<batch_index, batch, pos, batches, exc>>
    /\ UNCHANGED <<cfg, runs, emails, card, log_exists, log_file, log_handle, log_base,
                   total_sent, total_failed, to_email, attempt, attempts, last_status,
                   message_id, error_preview, ok, trace, calls, retry_sleeps,
                   batch_sleeps, paused_after, posts>>

\* lines 346-351: the next recipient of the batch, or the end of the batch
NextRecipient ==
    /\ pc = "next_recipient"
    /\ IF pos < Len(batch)
       THEN /\ pos' = pos + 1
            /\ to_email' = batch[pos + 1]
            /\ attempts' = 0
            /\ last_status' = NoStatus
            /\ message_id' = ""
            /\ error_preview' = <<>>
            /\ ok' = FALSE
            /\ attempt' = 0
            /\ trace' = <<>>
            /\ pc' = "next_attempt"
       ELSE /\ pc' = "batch_delay"
            /\ UNCHANGED <<pos, to_email, attempts, last_status, message_id,
                           error_preview, ok, attempt, trace>>
    /\ UNCHANGED <<cfg, runs, emails, card, log_exists, log_file, log_handle, log_base,
                   total_sent, total_failed, batch_index, batch, exc, calls,
                   retry_sleeps, batch_sleeps, batches, paused_after, posts>>

\* the range stops one short
HasNextAttemptShort == attempt + 1 < cfg.retry_count

\* line 353: range(1, retry_count + 1) has a next value
HasNextAttempt == attempt + 1 <= cfg.retry_count

\* line 364
IsSuccess(resp) == resp.status_code \in SuccessCodes

\* a pause follows every failed attempt
AttemptsRemainAlways(n) == TRUE

\* lines 378 and 383, evaluated after attempts = attempt
AttemptsRemain(n) == n < cfg.retry_count

\* the events a failed attempt adds to the trace: the call, and the sleep if any
FailedEvents(ans, preview, n) ==
    <<[ev |-> "send", answer |-> ans, preview |-> preview]>>
    \o (IF AttemptsRemain(n) THEN <<[ev |-> "sleep"]>> ELSE <<>>)

\* line 353: the range is exhausted, the loop ends without break
AttemptsExhausted ==
    /\ pc = "next_attempt"
    /\ ~HasNextAttempt
    /\ pc' = "log_result"
    /\ UNCHANGED <<cfg, runs, emails, card, log_exists, log_file, log_handle, log_base,
                   total_sent, total_failed, batch_index, batch, pos, to_email, attempt,
                   attempts, last_status, message_id, error_preview, ok, exc, trace,
                   calls, retry_sleeps, batch_sleeps, batches, paused_after, posts>>

\* an attempt of a dry run that does not leave the loop
DryRunAttemptNoBreak ==
    /\ pc = "next_attempt"
    /\ HasNextAttempt
    /\ cfg.dry_run
    /\ attempt' = attempt + 1
    /\ attempts' = attempt + 1
    /\ ok' = TRUE
    /\ last_status' = 200
    /\ message_id' = "(dry-run)"
    /\ trace' = Append(trace, [ev |-> "dry"])
    /\ pc' = "next_attempt"
    /\ UNCHANGED <<cfg, runs, emails, card, log_exists, log_file, log_handle, log_base,
                   total_sent, total_failed, batch_index, batch, pos, to_email,
                   error_preview, exc, calls, retry_sleeps, batch_sleeps, batches,
                   paused_after, posts>>

\* lines 353-359: an attempt of a dry run
DryRunAttempt ==
    /\ pc = "next_attempt"
    /\ HasNextAttempt
    /\ cfg.dry_run
    /\ attempt' = attempt + 1
    /\ attempts' = attempt + 1
    /\ ok' = TRUE
    /\ last_status' = 200
    /\ message_id' = "(dry-run)"
    /\ trace' = Append(trace, [ev |-> "dry"])
    /\ pc' = "log_result"
    /\ UNCHANGED <<cfg, runs, emails, card, log_exists, log_file, log_handle, log_base,
                   total_sent, total_failed, batch_index, batch, pos, to_email,
                   error_preview, exc, calls, retry_sleeps, batch_sleeps, batches,
                   paused_after, posts>>

\* lines 353-373: the call returns 200 or 201 and the body is handled
SendDelivered ==
    /\ pc = "next_attempt"
    /\ HasNextAttempt
    /\ ~cfg.dry_run
    /\ \E resp \in SuccessResponses :
        /\ IsSuccess(resp)
        /\ JsonIsDict(resp)
        /\ last_status' = resp.status_code
        /\ message_id' = MessageId(resp)
        /\ trace' = Append(trace, [ev |-> "send", answer |-> resp, preview |-> <<>>])
    /\ attempt' = attempt + 1
    /\ attempts' = attempt + 1
    /\ ok' = TRUE
    /\ calls' = calls + 1
    /\ posts' = Append(posts, [to |-> to_email, delivered |-> TRUE])
    /\ pc' = "log_result"
    /\ UNCHANGED <<cfg, runs, emails, card, log_exists, log_file, log_handle, log_base,
                   total_sent, total_failed, batch_index, batch, pos, to_email,
                   error_preview, exc, retry_sleeps, batch_sleeps, batches,
                   paused_after>>

\* lines 353-370: the call returns 200 or 201 with a body that is JSON but no
\* dict; data.get raises AttributeError, which no except clause of main catches
SendUnhandled ==
    /\ pc = "next_attempt"
    /\ HasNextAttempt
    /\ ~cfg.dry_run
    /\ \E resp \in SuccessResponses :
        /\ IsSuccess(resp)
        /\ ~JsonIsDict(resp)
        /\ last_status' = resp.status_code
        /\ trace' = Append(trace, [ev |-> "send", answer |-> resp, preview |-> <<>>])
    /\ attempt' = attempt + 1
    /\ attempts' = attempt + 1
    /\ calls' = calls + 1
    /\ posts' = Append(posts, [to |-> to_email, delivered |-> TRUE])
    /\ exc' = "AttributeError"
    /\ pc' = "finally"
    /\ UNCHANGED <<cfg, runs, emails, card, log_exists, log_file, log_handle, log_base,
                   total_sent, total_failed, batch_index, batch, pos, to_email,
                   message_id, error_preview, ok, retry_sleeps, batch_sleeps, batches,
                   paused_after>>

\* the preview of the first failed attempt is kept
SendRejectedFirstPreview ==
    /\ pc = "next_attempt"
    /\ HasNextAttempt
    /\ ~cfg.dry_run
    /\ \E resp \in FailureResponses :
        /\ ~IsSuccess(resp)
        /\ last_status' = resp.status_code
        /\ error_preview' = IF error_preview = <<>> THEN Preview(resp.text)
                            ELSE error_preview
        /\ trace' = trace \o FailedEvents(resp, error_preview', attempt + 1)
    /\ attempt' = attempt + 1
    /\ attempts' = attempt + 1
    /\ calls' = calls + 1
    /\ posts' = Append(posts, [to |-> to_email, delivered |-> FALSE])
    /\ retry_sleeps' = IF AttemptsRemain(attempt + 1) THEN retry_sleeps + 1 ELSE retry_sleeps
    /\ pc' = "next_attempt"
    /\ UNCHANGED <<cfg, runs, emails, card, log_exists, log_file, log_handle, log_base,
                   total_sent, total_failed, batch_index, batch, pos, to_email,
                   message_id, ok, exc, batch_sleeps, batches, paused_after>>

\* lines 353-364 and 374-379: the call returns another status
SendRejected ==
    /\ pc = "next_attempt"
    /\ HasNextAttempt
    /\ ~cfg.dry_run
    /\ \E resp \in FailureResponses :
        /\ ~IsSuccess(resp)
        /\ last_status' = resp.status_code
        /\ error_preview' = Preview(resp.text)
        /\ trace' = trace \o FailedEvents(resp, error_preview', attempt + 1)
    /\ attempt' = attempt + 1
    /\ attempts' = attempt + 1
    /\ calls' = calls + 1
    /\ posts' = Append(posts, [to |-> to_email, delivered |-> FALSE])
    /\ retry_sleeps' = IF AttemptsRemain(attempt + 1) THEN retry_sleeps + 1 ELSE retry_sleeps
    /\ pc' = "next_attempt"
    /\ UNCHANGED <<cfg, runs, emails, card, log_exists, log_file, log_handle, log_base,
                   total_sent, total_failed, batch_index, batch, pos, to_email,
                   message_id, ok, exc, batch_sleeps, batches, paused_after>>

\* the status of an earlier response is forgotten when the call raises
SendRaisedClearsStatus ==
    /\ pc = "next_attempt"
    /\ HasNextAttempt
    /\ ~cfg.dry_run
    /\ \E e \in Exceptions :
        /\ error_preview' = Preview(e.message)
        /\ trace' = trace \o FailedEvents(e, error_preview', attempt + 1)
    /\ attempt' = attempt + 1
    /\ attempts' = attempt + 1
    /\ last_status' = NoStatus
    /\ calls' = calls + 1
    /\ posts' = Append(posts, [to |-> to_email, delivered |-> FALSE])
    /\ retry_sleeps' = IF AttemptsRemain(attempt + 1) THEN retry_sleeps + 1 ELSE retry_sleeps
    /\ pc' = "next_attempt"
    /\ UNCHANGED <<cfg, runs, emails, card, log_exists, log_file, log_handle, log_base,
                   total_sent, total_failed, batch_index, batch, pos, to_email,
                   message_id, ok, exc, batch_sleeps, batches, paused_after>>

\* lines 353-362 and 380-384: the call raises requests.RequestException
SendRaised ==
    /\ pc = "next_attempt"
    /\ HasNextAttempt
    /\ ~cfg.dry_run
    /\ \E e \in Exceptions :
        /\ error_preview' = Preview(e.message)
        /\ trace' = trace \o FailedEvents(e, error_preview', attempt + 1)
    /\ attempt' = attempt + 1
    /\ attempts' = attempt + 1
    /\ calls' = calls + 1
    /\ posts' = Append(posts, [to |-> to_email, delivered |-> FALSE])
    /\ retry_sleeps' = IF AttemptsRemain(attempt + 1) THEN retry_sleeps + 1 ELSE retry_sleeps
    /\ pc' = "next_attempt"
    /\ UNCHANGED <<cfg, runs, emails, card, log_exists, log_file, log_handle, log_base,
                   total_sent, total_failed, batch_index, batch, pos, to_email,
                   last_status, message_id, ok, exc, batch_sleeps, batches,
                   paused_after>>

\* lines 390 and 393: the row written for the recipient (the timestamp, the
\* wall clock, is left out)
ResultRow ==
    [kind |-> "data", email |-> to_email,
     status |-> IF ok THEN "sent" ELSE "failed",
     attempts |-> attempts, http_status |-> last_status, message_id |-> message_id,
     error_preview |-> IF ok THEN <<>> ELSE error_preview]

\* a row goes to the log when the recipient succeeded only
LoggedRowsOnlySent == IF ok THEN Append(log_file, ResultRow) ELSE log_file

\* lines 388-393: log_writer.writerow, on either branch
LoggedRows == Append(log_file, ResultRow)

\* lines 386-393
LogResult ==
    /\ pc = "log_result"
    /\ log_file' = LoggedRows
    /\ total_sent' = IF ok THEN total_sent + 1 ELSE total_sent
    /\ total_failed' = IF ok THEN total_failed ELSE total_failed + 1
    /\ pc' = "next_recipient"
    /\ UNCHANGED <<cfg, runs, emails, card, log_exists, log_handle, log_base,
                   batch_index, batch, pos, to_email, attempt, attempts, last_status,
                   message_id, error_preview, ok, exc, trace, calls, retry_sleeps,
                   batch_sleeps, batches, paused_after, posts>>

\* the comparison lets an exact multiple through
MoreBatchesInclusive == batch_index * cfg.batch_size <= Len(emails)

\* line 396
MoreBatches == batch_index * cfg.batch_size < Len(emails)

\* lines 395-398
BatchDelay ==
    /\ pc = "batch_delay"
    /\ batch_sleeps' = IF MoreBatches THEN batch_sleeps + 1 ELSE batch_sleeps
    /\ paused_after' = IF MoreBatches THEN paused_after \cup {batch_index} ELSE paused_after
    /\ pc' = "next_batch"
    /\ UNCHANGED <<cfg, runs, emails, card, log_exists, log_file, log_handle, log_base,
                   total_sent, total_failed, batch_index, batch, pos, to_email, attempt,
                   attempts, last_status, message_id, error_preview, ok, exc, trace,
                   calls, retry_sleeps, batches, posts>>

\* the log is closed after the loop, with no finally clause
FinallyOnSuccess ==
    /\ pc = "finally"
    /\ log_handle' = IF exc = "none" THEN "closed" ELSE log_handle
    /\ pc' = IF exc = "none" THEN "summary" ELSE "crashed"
    /\ UNCHANGED <<cfg, runs, emails, card, log_exists, log_file, log_base,
                   total_sent, total_failed, batch_index, batch, pos, to_email, attempt,
                   attempts, last_status, message_id, error_preview, ok, exc, trace,
                   calls, retry_sleeps, batch_sleeps, batches, paused_after, posts>>

\* lines 400-402: flush and close, then the exception, if any, goes on
Finally ==
    /\ pc = "finally"
    /\ log_handle' = "closed"
    /\ pc' = IF exc = "none" THEN "summary" ELSE "crashed"
    /\ UNCHANGED <<cfg, runs, emails, card, log_exists, log_file, log_base,
                   total_sent, total_failed, batch_index, batch, pos, to_email, attempt,
                   attempts, last_status, message_id, error_preview, ok, exc, trace,
                   calls, retry_sleeps, batch_sleeps, batches, paused_after, posts>>

\* lines 404-407
Summary ==
    /\ pc = "summary"
    /\ pc' = "exit0"
    /\ UNCHANGED <<cfg, runs, emails, card, log_exists, log_file, log_handle, log_base,
                   total_sent, total_failed, batch_index, batch, pos, to_email, attempt,
                   attempts, last_status, message_id, error_preview, ok, exc, trace,
                   calls, retry_sleeps, batch_sleeps, batches, paused_after, posts>>

\* the steps of a running process
Step ==
    \/ CheckCsv
    \/ LoadEmails
    \/ LoadCard
    \/ OpenLog
    \/ NextBatch
    \/ NextRecipient
    \/ AttemptsExhausted
    \/ DryRunAttempt
    \/ SendDelivered
    \/ SendUnhandled
    \/ SendRejected
    \/ SendRaised
    \/ LogResult
    \/ BatchDelay
    \/ Finally
    \/ Summary

\* one process, any configuration
Next == Main(Configs, 1) \/ Step

Spec == Init /\ [][Next]_vars

\* successive processes that append to the same log path
NextRuns == Main(RunConfigs, MaxRuns) \/ Step

SpecRuns == Init /\ [][NextRuns]_vars

(***************************************************************************)
(* load_emails alone, on every small recipients file.                      *)
(***************************************************************************)
LoaderFields ==
    {Address(1), <<" ">> \o Address(1) \o <<" ">>, Address(2), <<"x">>, <<>>,
     <<"E", "m", "a", "i", "l", "@", "x">>}

LoaderRows ==
    {<<>>} \cup {<<f>> : f \in LoaderFields}
    \cup {<<<<"n">>, f>> : f \in {Address(1), Address(2) \o <<" ">>, <<" ">>}}

LoaderHeaders ==
    {<<EMAIL>>, <<<<"E", "m", "a", "i", "l">>>>, <<<<"E", "M", "A", "I", "L">>>>,
     <<<<"e", "M", "a", "i", "l">>>>, <<<<"n">>, EMAIL>>}

LoaderData == UNION {[1..k -> LoaderRows] : k \in 0..MaxRows}

LoaderFiles == LoaderData \cup {<<h>> \o d : h \in LoaderHeaders, d \in LoaderData}

InitLoader ==
    /\ pc = "load_emails"
    /\ \E rows \in LoaderFiles :
        cfg = [token |-> "t", csv |-> [exists |-> TRUE, rows |-> rows],
               card_json |-> TheCard, due |-> None,
               batch_size |-> 1, retry_count |-> 1, dry_run |-> TRUE]
    /\ runs = 1
    /\ emails = <<>>
    /\ card = None
    /\ log_exists = FALSE
    /\ log_file = <<>>
    /\ log_handle = "none"
    /\ log_base = 0
    /\ total_sent = 0
    /\ total_failed = 0
    /\ batch_index = 0
    /\ batch = <<>>
    /\ pos = 0
    /\ to_email = <<>>
    /\ attempt = 0
    /\ attempts = 0
    /\ last_status = NoStatus
    /\ message_id = ""
    /\ error_preview = <<>>
    /\ ok = FALSE
    /\ exc = "none"
    /\ trace = <<>>
    /\ calls = 0
    /\ posts = <<>>
    /\ retry_sleeps = 0
    /\ batch_sleeps = 0
    /\ batches = <<>>
    /\ paused_after = {}

NextLoader == LoadEmails

SpecLoader == InitLoader /\ [][NextLoader]_vars

(***************************************************************************)
(* load_card_json alone, on small templates: text blocks, fact sets and    *)
(* actions, alone or inside nested containers, column sets and action      *)
(* sets, in the body of a card.                                            *)
(***************************************************************************)
TB(text) == Dict(<<"type", "text">>, <<TextBlock, text>>)

TBNoText == Dict(<<"type">>, <<TextBlock>>)

Fact(title, value) == Dict(<<"title", "value">>, <<Str(<<title>>), value>>)

FactNoValue == Dict(<<"title">>, <<Str(<<"N">>)>>)

FS(facts) == Dict(<<"type", "facts">>, <<FactSet, List(facts)>>)

FSNoFacts == Dict(<<"type">>, <<FactSet>>)

Cont(items) == Dict(<<"type", "items">>, <<Container, List(items)>>)

ContNoItems == Dict(<<"type">>, <<Container>>)

Col(items) == Dict(<<"type", "items">>, <<Column, List(items)>>)

ColSet(columns) == Dict(<<"type", "columns">>, <<ColumnSet, List(columns)>>)

ActSet(actions) == Dict(<<"type", "actions">>, <<ActionSet, List(actions)>>)

OpenUrl(url) == Dict(<<"type", "url">>, <<ActionOpenUrl, url>>)

Submit ==
    Dict(<<"type">>,
         <<Str(<<"A", "c", "t", "i", "o", "n", ".", "S", "u", "b", "m", "i", "t">>)>>)

Card(body, actions) ==
    Dict(<<"type", "body", "actions">>, <<AdaptiveCard, List(body), List(actions)>>)

Hi == Str(<<"H", "i">>)

FactDue == Fact("D", DueToken)

FactA == Fact("A", Str(<<"v">>))

FactB == Fact("B", Str(<<"w">>))

FactSpace == Fact("S", Str(<<" ", "\t">>))

RenderFacts == {FactDue, FactA, FactB, FactSpace, FactNoValue, None}

RenderTexts == {TB(Hi), TB(DueToken), TB(Str(<<" ">>)), TBNoText}

RenderFactSets ==
    {FS(f) : f \in UNION {[1..k -> RenderFacts] : k \in 0..MaxFacts}} \cup {FSNoFacts}

RenderActions == {OpenUrl(Str(<<"u">>)), OpenUrl(DueToken), Submit}

\* the elements that are put inside groupings
GroupItems ==
    {TB(Hi), TB(DueToken), FS(<<FactDue>>), FS(<<FactA, FactDue, FactB>>)}

\* an element inside up to d nested groupings
RECURSIVE Nested(_)
Nested(d) ==
    IF d = 0 THEN GroupItems
    ELSE Nested(d - 1)
         \cup {Cont(<<e>>) : e \in Nested(d - 1)}
         \cup {ColSet(<<Col(<<e>>)>>) : e \in Nested(d - 1)}

RenderGroupings ==
    Nested(MaxDepth)
    \cup {Cont(<<a, b>>) : a \in GroupItems, b \in GroupItems}
    \cup {ColSet(<<Col(<<a>>), Col(<<b>>)>>) : a \in GroupItems, b \in GroupItems}
    \cup {ActSet(a) : a \in UNION {[1..k -> RenderActions] : k \in 0..2}}
    \cup {Cont(<<>>), ContNoItems, ColSet(<<>>), ColSet(<<Col(<<>>)>>)}

RenderElements == RenderTexts \cup RenderFactSets \cup RenderGroupings

RenderBodies ==
    {<<>>}
    \cup {<<e>> : e \in RenderElements}
    \cup {<<TB(Hi), e>> : e \in RenderElements}
    \cup {<<e, TB(DueToken)>> : e \in RenderElements}

RenderTemplates ==
    {Card(b, a) : b \in RenderBodies, a \in {<<>>, <<OpenUrl(DueToken)>>}}
    \cup {ContainerTemplate, TB(Hi), Dict(<<"type">>, <<AdaptiveCard>>)}

InitRender ==
    /\ pc = "load_card"
    /\ \E raw \in RenderTemplates, due \in DueInputs :
        cfg = [token |-> "t", csv |-> [exists |-> TRUE, rows |-> PlainFile(1)],
               card_json |-> [file |-> "ok", raw |-> raw], due |-> due,
               batch_size |-> 1, retry_count |-> 1, dry_run |-> TRUE]
    /\ runs = 1
    /\ emails = <<Address(1)>>
    /\ card = None
    /\ log_exists = FALSE
    /\ log_file = <<>>
    /\ log_handle = "none"
    /\ log_base = 0
    /\ total_sent = 0
    /\ total_failed = 0
    /\ batch_index = 0
    /\ batch = <<>>
    /\ pos = 0
    /\ to_email = <<>>
    /\ attempt = 0
    /\ attempts = 0
    /\ last_status = NoStatus
    /\ message_id = ""
    /\ error_preview = <<>>
    /\ ok = FALSE
    /\ exc = "none"
    /\ trace = <<>>
    /\ calls = 0
    /\ posts = <<>>
    /\ retry_sleeps = 0
    /\ batch_sleeps = 0
    /\ batches = <<>>
    /\ paused_after = {}

NextRender == LoadCard

SpecRender == InitRender /\ [][NextRender]_vars

(***************************************************************************)
(* What the claims speak of.                                               *)
(***************************************************************************)
RECURSIVE Flat(_)
Flat(seqs) == IF seqs = <<>> THEN <<>> ELSE Head(seqs) \o Flat(Tail(seqs))

Last(s) == s[Len(s)]

\* the data rows this process has written
RunRows ==
    IF log_handle = "none" THEN <<>> ELSE SubSeq(log_file, log_base + 1, Len(log_file))

RowEmails == [i \in 1..Len(RunRows) |-> RunRows[i].email]

\* the recipients whose attempt loop was entered, counted
Started ==
    IF batches = <<>> THEN 0
    ELSE Len(Flat(SubSeq(batches, 1, Len(batches) - 1))) + pos

\* the current recipient has no row yet
RowPending ==
    \/ pc \in {"next_attempt", "log_result"}
    \/ exc = "AttributeError"

\* the transport calls of the current (or last) recipient, in order
Sends == SelectSeq(trace, LAMBDA e : e.ev = "send")

Rejected(e) == e.answer.kind = "response" /\ e.answer.status_code \notin SuccessCodes

Succeeded(e) == e.answer.kind = "response" /\ e.answer.status_code \in SuccessCodes

\* the process left the loop without an exception
Completed == pc \in {"summary", "exit0"}

\* C1: with a batch size >= 1, at every moment the data rows of the process are
\* the recipients whose outcome is determined, one row each, in order: the row
\* of a recipient is there before the next recipient's first attempt, and at
\* normal completion there is exactly one row per loaded recipient.
C1_OneRowPerRecipient ==
    (cfg.batch_size >= 1 /\ log_handle # "none") =>
        /\ RowEmails = SubSeq(emails, 1, IF RowPending THEN Started - 1 ELSE Started)
        /\ Cardinality({RowEmails[i] : i \in 1..Len(RowEmails)}) = Len(RowEmails)
        /\ pc = "next_attempt" => to_email = emails[Len(RunRows) + 1]
        /\ Completed => RowEmails = emails

C1_Witness ==
    /\ pc = "exit0"
    /\ Len(emails) >= 2
    /\ cfg.retry_count >= 2
    /\ retry_sleeps > 0
    /\ \E i \in 1..Len(RunRows) : RunRows[i].status = "sent"
    /\ \E i \in 1..Len(RunRows) : RunRows[i].status = "failed"

\* C2: in a run that is no dry run, with retry count >= 1, once the first 200
\* or 201 response has arrived on attempt k, the recipient is sent with
\* attempts = k after exactly k transport calls, and no attempt follows.
C2_FirstSuccessIsSent ==
    (~cfg.dry_run /\ cfg.retry_count >= 1 /\ Sends # <<>> /\ Succeeded(Last(Sends))) =>
        /\ ok
        /\ attempts = Len(Sends)
        /\ pc # "next_attempt"
        /\ pc # "log_result" =>
              /\ RunRows # <<>>
              /\ Last(RunRows).status = "sent"
              /\ Last(RunRows).attempts = Len(Sends)

\* C3: in a run that is no dry run, with retry count R >= 1, a recipient whose
\* every attempt returned a non-success status ends failed with attempts = R
\* after exactly R transport calls, and the preview logged is the one of the
\* last attempt.
C3_AllRejectedIsFailed ==
    (/\ ~cfg.dry_run
     /\ cfg.retry_count >= 1
     /\ Sends # <<>>
     /\ \A i \in 1..Len(Sends) : Rejected(Sends[i])
     /\ pc # "next_attempt") =>
        /\ Len(Sends) = cfg.retry_count
        /\ ~ok
        /\ attempts = cfg.retry_count
        /\ error_preview = Preview(Last(Sends).answer.text)
        /\ pc # "log_result" =>
              /\ RunRows # <<>>
              /\ Last(RunRows).email = to_email
              /\ Last(RunRows).status = "failed"
              /\ Last(RunRows).attempts = cfg.retry_count
              /\ Last(RunRows).http_status = Last(Sends).answer.status_code
              /\ Last(RunRows).error_preview = Preview(Last(Sends).answer.text)

C3_Witness ==
    /\ pc = "next_recipient"
    /\ cfg.retry_count = 3
    /\ Len(Sends) = 3
    /\ \A i \in 1..Len(Sends) : Rejected(Sends[i])
    /\ Sends[2].answer.text # Sends[3].answer.text
    /\ Last(RunRows).status = "failed"

\* C4, as claimed: in a dry run, whatever the retry count, no transport call
\* is made and every recipient is logged sent, attempts = 1, status 200,
\* message id "(dry-run)".
C4_DryRunAnyRetryCount ==
    (cfg.dry_run /\ cfg.batch_size >= 1 /\ log_handle # "none") =>
        /\ calls = 0
        /\ \A i \in 1..Len(RunRows) :
              /\ RunRows[i].status = "sent"
              /\ RunRows[i].attempts = 1
              /\ RunRows[i].http_status = 200
              /\ RunRows[i].message_id = "(dry-run)"

\* C4, amended: in a dry run no transport call is made, whatever the retry
\* count; with a retry count >= 1 every recipient is logged sent, attempts = 1,
\* status 200, message id "(dry-run)"; with a retry count <= 0 no attempt is
\* made and every recipient is logged failed, attempts = 0, without a status.
C4_DryRun ==
    (cfg.dry_run /\ cfg.batch_size >= 1 /\ log_handle # "none") =>
        /\ calls = 0
        /\ Sends = <<>>
        /\ Completed => RowEmails = emails
        /\ \A i \in 1..Len(RunRows) :
              IF cfg.retry_count >= 1
              THEN /\ RunRows[i].status = "sent"
                   /\ RunRows[i].attempts = 1
                   /\ RunRows[i].http_status = 200
                   /\ RunRows[i].message_id = "(dry-run)"
              ELSE /\ RunRows[i].status = "failed"
                   /\ RunRows[i].attempts = 0
                   /\ RunRows[i].http_status = NoStatus
                   /\ RunRows[i].message_id = ""

C4_Witness ==
    /\ cfg.dry_run
    /\ pc = "exit0"
    /\ cfg.retry_count = 3
    /\ cfg.batch_size = 2
    /\ Len(RunRows) = 2

\* ceil(n / b), n >= 1 and b >= 1
Ceil(n, b) == CHOOSE k \in 1..n : k * b >= n /\ (k - 1) * b < n

\* the batches that the inter-batch step has followed
BatchesDone ==
    IF pc \in {"next_recipient", "next_attempt", "log_result", "batch_delay"}
       \/ exc = "AttributeError"
    THEN Len(batches) - 1
    ELSE Len(batches)

\* C5: with N >= 1 recipients and batch size B >= 1 the batches are of size B,
\* but for a smaller last one, and their concatenation is the recipient list in
\* order; a pause follows every batch except the last, batch ceil(N/B); at
\* normal completion there were ceil(N/B) batches and ceil(N/B) - 1 pauses.
C5_BatchesAndPauses ==
    (cfg.batch_size >= 1 /\ log_handle # "none") =>
        LET N == Len(emails)
            B == cfg.batch_size
        IN  /\ Len(batches) = batch_index
            /\ Len(batches) <= Ceil(N, B)
            /\ \A k \in 1..Len(batches) :
                  \/ Len(batches[k]) = B
                  \/ k = Ceil(N, B) /\ Len(batches[k]) \in 1..(B - 1)
            /\ Flat(batches) = SubSeq(emails, 1, Len(Flat(batches)))
            /\ paused_after = {k \in 1..BatchesDone : k < Ceil(N, B)}
            /\ batch_sleeps = Cardinality(paused_after)
            /\ Completed =>
                  /\ Len(batches) = Ceil(N, B)
                  /\ Flat(batches) = emails
                  /\ batch_sleeps = Ceil(N, B) - 1

C5_Witness ==
    /\ pc = "exit0"
    /\ Len(emails) = 4
    /\ cfg.batch_size = 2
    /\ batch_sleeps = 1
    /\ Len(batches) = 2

\* C6: with a batch size >= 1, whatever the transport answered, a process that
\* entered the loop ends with the summary, and total sent + total failed is the
\* number of loaded recipients.
C6_RunReachesSummary ==
    (pc \in Terminated /\ log_handle # "none" /\ cfg.batch_size >= 1) =>
        /\ pc = "exit0"
        /\ total_sent + total_failed = Len(emails)

\* the configuration holds a fatal error: no token, no recipients file, no valid
\* recipient, no template, a template that is not JSON, or a root that is no
\* AdaptiveCard
FatalConfiguration(c) ==
    \/ c.token = ""
    \/ ~c.csv.exists
    \/ load_emails(c.csv.rows) = <<>>
    \/ c.card_json.file # "ok"
    \/ ~IsDict(c.card_json.raw)
    \/ Get(c.card_json.raw, "type") # AdaptiveCard

\* C7: a process whose configuration holds a fatal error makes no transport
\* call, never opens the log and never enters the loop; and a process ends in a
\* fatal error only for such a configuration, with no transport call made.
C7_FatalBeforeAnySend ==
    /\ (pc # "idle" /\ FatalConfiguration(cfg)) =>
          /\ calls = 0
          /\ trace = <<>>
          /\ log_handle = "none"
          /\ pc \in {"check_csv", "load_emails", "load_card", "exit1"}
    /\ pc = "exit1" => FatalConfiguration(cfg) /\ calls = 0

C7_Witness ==
    /\ pc = "exit1"
    /\ cfg.token # ""
    /\ cfg.csv.exists
    /\ emails # <<>>
    /\ cfg.card_json.file = "ok"

\* C8: whatever the number of processes that have appended to the log path,
\* the file, once it exists, starts with the header row and holds no other
\* header row.
C8_HeaderOnce ==
    /\ log_exists <=> log_file # <<>>
    /\ log_file # <<>> => log_file[1] = HeaderRow
    /\ \A i \in 2..Len(log_file) : log_file[i].kind = "data"

C8_Witness ==
    /\ runs >= 2
    /\ pc = "exit0"
    /\ log_base >= 2
    /\ Len(log_file) > log_base

\* C9: outside the loop and its finally clause the log handle is never open:
\* a process that opened the log has closed it when it prints the summary,
\* when it has ended, and when an exception left the loop.
C9_LogClosed ==
    /\ pc \in Terminated \cup {"summary"} => log_handle # "open"
    /\ pc \in {"summary", "exit0", "crashed"} => log_handle = "closed"
    /\ log_handle = "open" =>
          pc \in {"next_batch", "next_recipient", "next_attempt", "log_result",
                  "batch_delay", "finally"}

C9_Witness ==
    /\ pc = "crashed"
    /\ exc = "AttributeError"
    /\ log_handle = "closed"
    /\ RunRows # <<>>

\* the first place of e in s
FirstIndex(s, e) == CHOOSE i \in 1..Len(s) : s[i] = e /\ \A j \in 1..(i - 1) : s[j] # e

\* C10: the loader returns the first occurrences of the accepted candidates in
\* file order: no address twice, every candidate present, in the order of
\* their first occurrences; and every address is non-empty after trimming and
\* contains "@".
C10_LoaderOutput ==
    pc \in {"load_card", "exit1"} =>
        LET cands == Candidates(cfg.csv.rows)
        IN  /\ \A i, j \in 1..Len(emails) : emails[i] = emails[j] => i = j
            /\ {emails[i] : i \in 1..Len(emails)} = {cands[i] : i \in 1..Len(cands)}
            /\ \A i, j \in 1..Len(emails) :
                  i < j => FirstIndex(cands, emails[i]) < FirstIndex(cands, emails[j])
            /\ \A i \in 1..Len(emails) :
                  Strip(emails[i]) # <<>> /\ Contains(emails[i], AT)

C10_Witness ==
    /\ pc = "load_card"
    /\ Len(emails) = 2
    /\ Len(Candidates(cfg.csv.rows)) = 3
    /\ emails[1] = Address(2)
    /\ cfg.csv.rows[1] = <<<<"n">>, EMAIL>>
    /\ \E i \in 1..Len(cfg.csv.rows) : cfg.csv.rows[i] = <<<<"n">>, Address(2) \o <<" ">>>>

\* the columns whose header is "email" in some letter case
EmailColumns(fieldnames) == {i \in 1..Len(fieldnames) : Lower(fieldnames[i]) = EMAIL}

\* the trimmed values of the column "email" (in any letter case) that are
\* non-empty and contain "@", in file order, for a file with one such column
ColumnEmails(rows) ==
    LET col == CHOOSE i \in EmailColumns(rows[1]) : TRUE
        data == SelectSeq(Tail(rows), LAMBDA r : r # <<>>)
        vals == [i \in 1..Len(data) |->
                    IF col <= Len(data[i]) THEN Strip(data[i][col]) ELSE <<>>]
    IN  SelectSeq(vals, LAMBDA v : v # <<>> /\ Contains(v, AT))

\* C11: when the first line contains "email" in any letter case and one column
\* header is "email" in some letter case (email, Email, EMAIL, eMail), the
\* loader returns the first occurrences of the values of that column that are
\* non-empty after trimming and contain "@".
C11_HeaderAnyCasing ==
    (/\ pc \in {"load_card", "exit1"}
     /\ Contains(Lower(FirstLine(cfg.csv.rows)), EMAIL)
     /\ Cardinality(EmailColumns(cfg.csv.rows[1])) = 1) =>
        emails = Dedupe(ColumnEmails(cfg.csv.rows), {})

\* the template after the substitution of the placeholders
Substituted == _deep_replace_placeholders(cfg.card_json.raw, Variables(cfg))

\* the renderer has returned the card
Rendered == pc = "open_log"

\* the template is an object whose root type is AdaptiveCard
RootIsCard(c) ==
    /\ c.card_json.file = "ok"
    /\ IsDict(c.card_json.raw)
    /\ Get(c.card_json.raw, "type") = AdaptiveCard

EmptyCard == Card(<<>>, <<>>)

\* C12: for a template whose root type is AdaptiveCard, whatever the
\* variables, the renderer returns an object whose root type is AdaptiveCard,
\* also when every child of the root was pruned.
C12_RootKept ==
    (pc # "load_card" /\ RootIsCard(cfg)) =>
        /\ Rendered
        /\ IsDict(card)
        /\ Get(card, "type") = AdaptiveCard

C12_Witness ==
    /\ Rendered
    /\ card = EmptyCard
    /\ LenOf(Get(cfg.card_json.raw, "body")) = 2
    /\ LenOf(Get(cfg.card_json.raw, "actions")) = 1

\* the lists of facts of the fact sets of a value, in document order
RECURSIVE FactSetsOf(_)
FactSetsOf(v) ==
    IF IsDict(v)
    THEN (IF Get(v, "type") = FactSet
          THEN <<GetOr(v, "facts", List(<<>>)).items>>
          ELSE <<>>)
         \o Flat([i \in 1..Len(v.vals) |-> FactSetsOf(v.vals[i])])
    ELSE IF IsList(v) THEN Flat([i \in 1..Len(v.items) |-> FactSetsOf(v.items[i])])
    ELSE <<>>

\* the value of a fact is missing, empty or whitespace only
BlankValue(f) ==
    \/ f = None
    \/ ~HasKey(f, "value")
    \/ Get(f, "value") = None
    \/ /\ IsStr(Get(f, "value"))
       /\ \A i \in 1..Len(Get(f, "value").s) : IsSpace(Get(f, "value").s[i])

NonBlankFacts(facts) == SelectSeq(facts, LAMBDA f : ~BlankValue(f))

\* C13: the fact sets of the rendered card are the fact sets of the
\* substituted template that hold a fact with a non-blank value, in document
\* order, each with exactly its non-blank facts in their original order; a
\* fact set whose values are all blank is nowhere in the card.
C13_FactSets ==
    Rendered =>
        LET before == FactSetsOf(Substituted)
            kept == [i \in 1..Len(before) |-> NonBlankFacts(before[i])]
        IN  FactSetsOf(card) = SelectSeq(kept, LAMBDA facts : facts # <<>>)

C13_Witness ==
    /\ Rendered
    /\ FactSetsOf(cfg.card_json.raw) = << <<FactDue>>, <<FactA, FactDue, FactB>> >>
    /\ FactSetsOf(card) = << <<FactA, FactB>> >>

\* the collection of a grouping: a key that is missing holds no child
Children(v, key) == GetOr(v, key, List(<<>>)).items

\* the value is a container or column without items, a column set without
\* columns or an action set without actions
IsEmptyGrouping(v) ==
    \/ Get(v, "type") \in {Container, Column} /\ Children(v, "items") = <<>>
    \/ Get(v, "type") = ColumnSet /\ Children(v, "columns") = <<>>
    \/ Get(v, "type") = ActionSet /\ Children(v, "actions") = <<>>

\* no empty grouping is the value or lies below it
RECURSIVE NoEmptyGrouping(_)
NoEmptyGrouping(v) ==
    IF IsDict(v)
    THEN ~IsEmptyGrouping(v) /\ \A i \in 1..Len(v.vals) : NoEmptyGrouping(v.vals[i])
    ELSE IF IsList(v) THEN \A i \in 1..Len(v.items) : NoEmptyGrouping(v.items[i])
    ELSE TRUE

\* the element is to be absent after rendering: a blank text block, a fact
\* set without a non-blank value, an action without a url, or a grouping all
\* of whose children are to be absent
RECURSIVE Vanishes(_)
Vanishes(v) ==
    LET t == Get(v, "type")
        All(key) == \A i \in 1..Len(Children(v, key)) : Vanishes(Children(v, key)[i])
    IN  CASE t = TextBlock ->
                 BlankValue(IF HasKey(v, "text") THEN Dict(<<"value">>, <<Get(v, "text")>>)
                            ELSE None)
          [] t = FactSet -> NonBlankFacts(Children(v, "facts")) = <<>>
          [] t = ActionOpenUrl ->
                 BlankValue(IF HasKey(v, "url") THEN Dict(<<"value">>, <<Get(v, "url")>>)
                            ELSE None)
          [] t \in {Container, Column} -> All("items")
          [] t = ColumnSet -> All("columns")
          [] t = ActionSet -> All("actions")
          [] OTHER -> FALSE

\* C14: no container or column without items, no column set without columns
\* and no action set without actions is anywhere in the rendered card; and an
\* element of the body is absent from the card exactly when all that it held,
\* at any depth, was pruned.
C14_NoEmptyGroupings ==
    Rendered =>
        /\ NoEmptyGrouping(card)
        /\ Len(Children(card, "body"))
             = Len(SelectSeq(Children(Substituted, "body"), LAMBDA e : ~Vanishes(e)))

C14_Witness ==
    /\ Rendered
    /\ Children(cfg.card_json.raw, "body")
         = <<TB(Hi), Cont(<<ColSet(<<Col(<<TB(DueToken)>>)>>)>>)>>
    /\ Children(card, "body") = <<TB(Hi)>>

\* the error text of an attempt that failed
ErrorText(e) == IF e.answer.kind = "response" THEN e.answer.text ELSE e.answer.message

\* the attempts of the recipient that returned a response, in order
Responses == SelectSeq(Sends, LAMBDA e : e.answer.kind = "response")

\* the last row of the log is the row of the recipient whose attempts the
\* trace holds
RowWritten ==
    /\ exc = "none"
    /\ pc \notin {"next_attempt", "log_result"}
    /\ RunRows # <<>>
    /\ Last(RunRows).email = to_email

\* the last row of the log is a failed row written after at least one attempt
FailedRowWritten == RowWritten /\ Last(RunRows).status = "failed" /\ Sends # <<>>

\* C15: the row of a recipient that ends failed after a sequence of non-success
\* responses and transport failures holds the preview of the error text of
\* the final attempt, and the status code of the most recent attempt that
\* returned a response, or no status if none did.
C15_LastCaptured ==
    FailedRowWritten =>
        /\ Last(RunRows).attempts = Len(Sends)
        /\ Last(RunRows).error_preview = Preview(ErrorText(Last(Sends)))
        /\ Last(RunRows).http_status =
              IF Responses = <<>> THEN NoStatus ELSE Last(Responses).answer.status_code

C15_Witness ==
    /\ FailedRowWritten
    /\ Len(Sends) = 3
    /\ Sends[1].answer.kind = "response" /\ Sends[1].answer.status_code = 429
    /\ Sends[2].answer.kind = "response" /\ Sends[2].answer.status_code = 500
    /\ Sends[3].answer.kind = "exception"
    /\ Last(RunRows).http_status = 500
    /\ Last(RunRows).error_preview = ErrorText3

\* an attempt that did not end in a 200 or 201 response
IsFailedSend(e) == e.ev = "send" /\ ~Succeeded(e)

\* the retry pauses of the recipient
Sleeps == SelectSeq(trace, LAMBDA e : e.ev = "sleep")

\* the number of the attempt at place i of the trace
AttemptNo(i) == Len(SelectSeq(SubSeq(trace, 1, i), LAMBDA e : e.ev = "send"))

\* the addresses the transport was called for
Targets == {posts[i].to : i \in 1..Len(posts)}

\* C16: a retry pause follows a failed attempt if and only if attempts remain;
\* every pause lies between a failed attempt and the next attempt of the same
\* recipient; nothing follows a successful attempt; a recipient that ends
\* after k >= 1 attempts has caused exactly k - 1 pauses.
C16_RetryPauses ==
    /\ \A i \in 1..Len(trace) :
          trace[i].ev = "sleep" =>
              /\ i > 1
              /\ IsFailedSend(trace[i - 1])
              /\ IF i < Len(trace) THEN trace[i + 1].ev = "send"
                 ELSE pc = "next_attempt" /\ HasNextAttempt
    /\ \A i \in 1..Len(trace) :
          IsFailedSend(trace[i]) =>
              ((i < Len(trace) /\ trace[i + 1].ev = "sleep")
                  <=> AttemptNo(i) < cfg.retry_count)
    /\ \A i \in 1..Len(trace) :
          (trace[i].ev = "send" /\ Succeeded(trace[i])) => i = Len(trace)
    /\ (pc # "next_attempt" /\ Sends # <<>>) =>
          /\ attempts = Len(Sends)
          /\ Len(Sleeps) = Len(Sends) - 1
          /\ retry_sleeps = Len(posts) - Cardinality(Targets)

C16_Witness ==
    /\ pc = "next_recipient"
    /\ cfg.retry_count = 3
    /\ Len(Sends) = 3
    /\ Len(Sleeps) = 2
    /\ Rejected(Sends[1])
    /\ Sends[2].answer.kind = "exception"
    /\ Succeeded(Sends[3])
    /\ Last(RunRows).status = "sent"

\* the place of an address in the recipient list
Place(e) == CHOOSE k \in 1..Len(emails) : emails[k] = e

\* C17: with a batch size >= 1 the transport is called for the recipients in
\* list order, and the rows are in list order; when the first attempt for a
\* recipient is due, the rows of all the recipients before it are written;
\* when the inter-batch step is reached, every recipient of the batches so far
\* has its row; and the attempts of batch i + 1 come after the pause that
\* followed batch i.
C17_SequentialOrder ==
    (cfg.batch_size >= 1 /\ log_handle # "none") =>
        LET rows == RunRows
        IN
        /\ RowEmails = SubSeq(emails, 1, Len(rows))
        /\ \A i \in 1..(Len(posts) - 1) :
              Place(posts[i].to) <= Place(posts[i + 1].to)
        /\ \A i \in 1..Len(posts) :
              \/ \E n \in 1..Len(rows) : rows[n].email = posts[i].to
              \/ RowPending /\ posts[i].to = to_email
        /\ pc = "next_attempt" =>
              /\ to_email = emails[Len(rows) + 1]
              /\ Len(rows) = Started - 1
        /\ pc = "batch_delay" => Len(rows) = Len(Flat(batches))
        /\ \A k \in paused_after :
              Len(rows) >= Len(Flat(SubSeq(batches, 1, k)))
        /\ (pc \in {"next_recipient", "next_attempt", "log_result"} /\ batch_index >= 2) =>
              (batch_index - 1) \in paused_after

C17_Witness ==
    /\ pc = "next_attempt"
    /\ cfg.batch_size = 2
    /\ batch_index = 2
    /\ pos = 1
    /\ Sends = <<>>
    /\ paused_after = {1}
    /\ Len(RunRows) = 2
    /\ Len(posts) >= 2

\* the transport calls made for an address, counted
PostsTo(e) == Cardinality({i \in 1..Len(posts) : posts[i].to = e})

\* C18: the calls for an address are consecutive and end with the first
\* delivery; once the row of an address is written, the calls made for that
\* address stay the attempts the row records, and the next attempt is never
\* for an address that has a row; so no address is delivered to twice in a
\* run, also when the file held it several times.
C18_Absorbing ==
    log_handle # "none" =>
        LET rows == RunRows
        IN  /\ \A i, j \in 1..Len(posts) :
                  (i < j /\ posts[i].delivered) => posts[j].to # posts[i].to
            /\ \A i, j \in 1..Len(posts) :
                  (i < j /\ posts[i].to = posts[j].to) => posts[j - 1].to = posts[i].to
            /\ \A n \in 1..Len(rows) :
                  PostsTo(rows[n].email) = IF cfg.dry_run THEN 0 ELSE rows[n].attempts
            /\ pc = "next_attempt" =>
                  \A n \in 1..Len(rows) : rows[n].email # to_email

C18_Witness ==
    /\ pc = "exit0"
    /\ cfg.csv.rows = HeaderFile
    /\ Len(Candidates(cfg.csv.rows)) = 3
    /\ Len(emails) = 2
    /\ Len(posts) = 3
    /\ posts[1].to = Address(1) /\ posts[1].delivered
    /\ posts[2].to = Address(2) /\ ~posts[2].delivered
    /\ posts[3].to = Address(2) /\ posts[3].delivered

\* C19, as claimed: the status and the preview of a failed row come from one
\* attempt: some attempt returned the status of the row with the error text
\* of the row.
C19_SameAttempt ==
    (FailedRowWritten /\ Last(RunRows).http_status # NoStatus) =>
        \E i \in 1..Len(Sends) :
            /\ Sends[i].answer.kind = "response"
            /\ Sends[i].answer.status_code = Last(RunRows).http_status
            /\ Preview(Sends[i].answer.text) = Last(RunRows).error_preview

\* C19, amended: the preview of a failed row is the one of the final attempt;
\* the status is the one of the same attempt when the final attempt returned a
\* response; when the final attempt was a transport failure, the status is the
\* one of the most recent earlier attempt that returned a response, and there
\* is none if no attempt returned one.
C19_SameAttemptUnlessRaisedLast ==
    FailedRowWritten =>
        LET final == Last(Sends)
            row == Last(RunRows)
        IN  IF final.answer.kind = "response"
            THEN /\ row.http_status = final.answer.status_code
                 /\ row.error_preview = Preview(final.answer.text)
            ELSE /\ row.error_preview = Preview(final.answer.message)
                 /\ \/ Responses = <<>> /\ row.http_status = NoStatus
                    \/ /\ Responses # <<>>
                       /\ row.http_status = Last(Responses).answer.status_code
                       /\ row.error_preview # Preview(Last(Responses).answer.text)

C19_Witness ==
    /\ FailedRowWritten
    /\ cfg.retry_count = 2
    /\ Len(Sends) = 2
    /\ Sends[1].answer.kind = "response" /\ Sends[1].answer.status_code = 500
    /\ Sends[2].answer.kind = "exception"
    /\ Last(RunRows).http_status = 500
    /\ Last(RunRows).error_preview = ErrorText3

\* C20: with N recipients, a batch size B >= 1 and a retry count R >= 1, a
\* process that entered the loop makes at most N * R transport calls, at most
\* N * (R - 1) retry pauses and at most ceil(N / B) - 1 inter-batch pauses, and
\* ends with the summary, every recipient having its sent or failed row.
C20_TerminatesWithinBounds ==
    (cfg.batch_size >= 1 /\ cfg.retry_count >= 1 /\ log_handle # "none") =>
        LET N == Len(emails)
        IN  /\ calls <= N * cfg.retry_count
            /\ retry_sleeps <= N * (cfg.retry_count - 1)
            /\ batch_sleeps <= Ceil(N, cfg.batch_size) - 1
            /\ pc \in Terminated =>
                  /\ pc = "exit0"
                  /\ RowEmails = emails
                  /\ \A n \in 1..Len(RunRows) : RunRows[n].status \in {"sent", "failed"}

====
